---- MODULE Spec2Model ----
(***************************************************************************)
(* A model of the launch_sentiment_analysis pipeline: the five stage       *)
(* functions (download_pageviews, extract_gzip, transform_pageviews,       *)
(* load_to_postgres, get_most_viewed_page), the postgres_cursor context    *)
(* manager they share, and the DAG that chains them with retries.          *)
(*                                                                         *)
(* Text is modelled as TLA+ strings, read character by character; a file   *)
(* is a record that says whether it exists and what it holds: a text file  *)
(* its lines, a CSV file its rows of strings.                              *)
(* Everything outside the repository that can fail (network, filesystem,   *)
(* database driver) fails nondeterministically.                            *)
(***************************************************************************)
EXTENDS Integers, Sequences, FiniteSets, TLC

VARIABLES
    pc,             \* control position of the executing stage function
    fn,             \* the stage function invoked last
    error,          \* the exception in flight inside the function
    raised,         \* the exception that reached the caller
    firstError,     \* the first exception of this invocation (history)
    result,         \* the value returned to the caller
    pipelineLog,    \* logger.py: LOG_FILE, entries at level INFO and above
    logMark,        \* length of pipelineLog when the invocation began
    reload,         \* this is a load of the file the call before it loaded
                    \* into a store without rows (history)
    remote,         \* what the URL serves
    rawFile,        \* the downloaded .gz file on disk
    extractedFile,  \* the extracted text file (input_file of the transform)
    event_time,     \* the execution timestamp handed to the transform
    timestamp,      \* transform_pageviews: year, month, day, hour
    page_title_id,  \* transform_pageviews: surrogate key counter
    tIdx,           \* transform_pageviews: lines of infile consumed
    csvFile,        \* the transformed CSV file on disk
    store,          \* committed contents of the database
    txn,            \* the database as seen inside the open transaction
    connOpen,       \* connection acquired and not closed
    cursorOpen,     \* cursor acquired and not closed
    commits,        \* successful commits of this invocation
    csvPos,         \* load_to_postgres: rows of the reader consumed
    storeAtCall,    \* committed contents when the invocation began (history)
    analysisLog,    \* ANALYSIS_LOG_FILE: its lines, and the text after the
                    \* last line terminator
    analysisAtCall, \* analysisLog when the invocation began (history)
    row,            \* get_most_viewed_page: what fetchone returned
    calls,          \* invocations started by the harness
    faults,         \* failures of the environment so far
    task,           \* DAG: index of the task being scheduled
    try_number,     \* DAG: attempts of the current task so far
    run,            \* DAG: state of the run
    history         \* DAG: the task attempts made, in order, with outcome

stageVars == <<pc, fn, error, raised, firstError, result, pipelineLog, logMark, reload>>
fileVars  == <<remote, rawFile, extractedFile, event_time, csvFile>>
tVars     == <<timestamp, page_title_id, tIdx>>
dbVars    == <<store, txn, connOpen, cursorOpen, commits, csvPos, storeAtCall>>
anVars    == <<analysisLog, analysisAtCall, row>>
dagVars   == <<task, try_number, run, history>>
vars      == <<stageVars, fileVars, tVars, dbVars, anVars, calls, faults, dagVars>>

----------------------------------------------------------------------------
(* Bounds of the model.                                                    *)

MaxLines == 2
MaxCalls == 3
MaxFaults == 3
MaxCut == 1

----------------------------------------------------------------------------
(* Values shared by the stages.                                            *)

NoError == "NoError"
\* Files on disk. A CSV file is the sequence of its rows, a row the
\* sequence of its fields; a text file is the sequence of its lines,
\* without their terminators; a raw file has a kind of content. NoFile,
\* NoText and NoRaw are paths at which there is no file.
CsvFile(rows)   == [exists |-> TRUE, rows |-> rows]
TextFile(lines) == [exists |-> TRUE, lines |-> lines]
NoFile  == [exists |-> FALSE, rows |-> <<>>]
NoText  == [exists |-> FALSE, lines |-> <<>>]
NoRaw   == [exists |-> FALSE, kind |-> "none", text |-> <<>>]

\* What a stage function hands back: None, a path, or a dict (as the
\* sequence of its at most one set of items).
ReturnNone        == <<>>
ReturnPath(p)     == <<"str", p>>
ReturnDict(items) == <<"dict", items>>
NoTime  == [year |-> 0, month |-> 0, day |-> 0, hour |-> 0]

Range(s) == {s[i] : i \in 1..Len(s)}

\* Whether a call into the environment succeeds, and which of the ways to
\* fail, "none" among them, happens: anything while failures remain.
MayFail   == IF faults < MaxFaults THEN BOOLEAN ELSE {TRUE}
Faults(S) == IF faults < MaxFaults THEN S ELSE {"none"}

\* logger.py: one formatted entry appended to pipeline.log. logger.debug
\* calls leave no entry: the logger's level is INFO.
LogEntry(level, func, msg) == [level |-> level, func |-> func, msg |-> msg]

\* The characters of a string, and the value of a run of decimal digits.
Chars(s)    == [i \in 1..Len(s) |-> SubSeq(s, i, i)]
DigitVal(c) == CASE c = "0" -> 0 [] c = "1" -> 1 [] c = "2" -> 2 [] c = "3" -> 3
                 [] c = "4" -> 4 [] c = "5" -> 5 [] c = "6" -> 6 [] c = "7" -> 7
                 [] c = "8" -> 8 [] c = "9" -> 9
IsDigit(c)  == c \in {"0", "1", "2", "3", "4", "5", "6", "7", "8", "9"}
AllDigits(s) == \A i \in 1..Len(s) : IsDigit(SubSeq(s, i, i))

RECURSIVE Number(_)
Number(s) == IF Len(s) = 0 THEN 0
             ELSE 10 * Number(SubSeq(s, 1, Len(s) - 1))
                  + DigitVal(SubSeq(s, Len(s), Len(s)))

RECURSIVE Negative(_)
\* The value of a run of decimal digits behind a minus sign.
Negative(s) == IF Len(s) = 0 THEN 0
               ELSE 10 * Negative(SubSeq(s, 1, Len(s) - 1))
                    - DigitVal(SubSeq(s, Len(s), Len(s)))

RECURSIVE Without(_, _)
\* str.replace(c, ""): the string with every occurrence of character c removed.
Without(s, c) ==
    IF Len(s) = 0 THEN ""
    ELSE (IF SubSeq(s, 1, 1) = c THEN "" ELSE SubSeq(s, 1, 1))
         \o Without(SubSeq(s, 2, Len(s)), c)

\* Python's int(text) in base 10: an optional sign, then decimal digits
\* with single underscores allowed between two digits. Leading zeros are
\* accepted; more than sys.int_max_str_digits digits (4300 unless the
\* interpreter is told otherwise) raise ValueError. (Whitespace around the number never reaches int here: the
\* text is a piece of str.split(). Digits outside ASCII, which int also
\* accepts, are not among the characters of the model.)
IntBody(s) == IF Len(s) > 0 /\ SubSeq(s, 1, 1) \in {"+", "-"}
              THEN SubSeq(s, 2, Len(s)) ELSE s
MaxStrDigits == 4300
IsIntText(s) ==
    LET b == Chars(IntBody(s))
    IN  /\ Len(b) > 0
        /\ Len(Without(IntBody(s), "_")) <= MaxStrDigits
        /\ \A i \in 1..Len(b) :
              \/ IsDigit(b[i])
              \/ /\ b[i] = "_"
                 /\ i > 1 /\ i < Len(b)
                 /\ IsDigit(b[i - 1]) /\ IsDigit(b[i + 1])
ParseInt(s) ==
    LET d == Without(IntBody(s), "_")
    IN  IF Len(s) > 0 /\ SubSeq(s, 1, 1) = "-" THEN Negative(d) ELSE Number(d)

RECURSIVE StripZeros(_)
StripZeros(d) == IF Len(d) > 1 /\ SubSeq(d, 1, 1) = "0"
                 THEN StripZeros(SubSeq(d, 2, Len(d))) ELSE d

\* str(int(text)), the text csv.writer writes for int(text): the digits
\* without sign, underscores and leading zeros, behind a minus sign when
\* the integer is negative. Python's integers have no largest value, so
\* this is computed on the digits.
IntText(s) ==
    LET d == StripZeros(Without(IntBody(s), "_"))
    IN  IF Len(s) > 0 /\ SubSeq(s, 1, 1) = "-" /\ d # "0" THEN "-" \o d ELSE d

\* The analysis log file before anything is written to it.
EmptyLog == [lines |-> <<>>, cut |-> ""]

\* The database: whether wikipedia_pageviews exists, and its rows.
EmptyDb == [table |-> FALSE, rows |-> {}]

\* A stage function is entered: its locals are fresh, and the history
\* variables remember what the caller could see before the call.
Enter(f, start, csv) ==
    /\ fn' = f
    /\ csvFile' = csv
    /\ pc' = start
    /\ error' = NoError /\ raised' = NoError /\ firstError' = NoError
    /\ result' = ReturnNone
    /\ logMark' = Len(pipelineLog)
    /\ reload' = /\ f = "load_to_postgres" /\ fn = "load_to_postgres"
                  /\ csv = csvFile /\ storeAtCall.rows = {}
    /\ timestamp' = NoTime /\ page_title_id' = 0 /\ tIdx' = 0
    /\ txn' = EmptyDb /\ connOpen' = FALSE /\ cursorOpen' = FALSE
    /\ commits' = 0 /\ csvPos' = 0 /\ row' = <<>>
    /\ storeAtCall' = store
    /\ analysisAtCall' = analysisLog
    /\ UNCHANGED <<pipelineLog, store, analysisLog>>

\* The state in which function f is about to run from position start.
InitWith(f, start, url, text, time, csv) ==
    /\ fn = f /\ pc = start
    /\ error = NoError /\ raised = NoError /\ firstError = NoError
    /\ result = ReturnNone
    /\ pipelineLog = <<>> /\ logMark = 0 /\ reload = FALSE
    /\ remote = url /\ rawFile = NoRaw /\ extractedFile = text /\ event_time = time /\ csvFile = csv
    /\ timestamp = NoTime /\ page_title_id = 0 /\ tIdx = 0
    /\ store = EmptyDb /\ txn = EmptyDb /\ connOpen = FALSE /\ cursorOpen = FALSE
    /\ commits = 0 /\ csvPos = 0 /\ storeAtCall = EmptyDb
    /\ analysisLog = EmptyLog /\ analysisAtCall = EmptyLog /\ row = <<>>
    /\ calls = 0 /\ faults = 0
    /\ task = 0 /\ try_number = 0 /\ run = "none" /\ history = <<>>

----------------------------------------------------------------------------
(* download_pageviews                                                      *)

\* What is on disk when a copy stops early: some whole lines of the text
\* and possibly the beginning of the next one.
Cut(text, j, m) ==
    SubSeq(text, 1, j) \o (IF m = 0 THEN <<>> ELSE <<SubSeq(text[j + 1], 1, m)>>)
Prefixes(text) ==
    {text} \cup UNION {{Cut(text, j, m) : m \in 0..(Len(text[j + 1]) - 1)} :
                       j \in 0..(Len(text) - 1)}

\* The file a transfer leaves behind when it stops after output_path was
\* opened: nothing, or the first bytes of what the URL serves. The kinds
\* of content are "gzip" (a complete gzip stream of text), "cut" (a gzip
\* stream that ends early; text is what decompresses before the end),
\* "empty" (no bytes) and "other" (not gzip: a first byte alone is not
\* recognised as gzip either).
PartialRaw(served) ==
    {[exists |-> TRUE, kind |-> "empty", text |-> <<>>]}
    \cup (IF served.kind = "empty" THEN {}
          ELSE {[exists |-> TRUE, kind |-> "other", text |-> <<>>],
                [exists |-> TRUE, kind |-> served.kind, text |-> served.text]})
    \cup (IF served.kind \in {"gzip", "cut"}
          THEN {[exists |-> TRUE, kind |-> "cut", text |-> t] :
                    t \in Prefixes(served.text)}
          ELSE {})

\* Lines 26-63, the whole function: log, mkdir, the streamed GET, the
\* chunks written to output_path. Each except clause logs at ERROR level
\* and re-raises. The failures are: mkdir, the request ("http"), the
\* opening of output_path, a chunk of the transfer ("stream"), a write,
\* and an exception that is neither a RequestException nor an OSError,
\* before output_path is opened ("other") or in the loop over the chunks
\* ("other_loop"). Whatever fails after output_path was opened leaves
\* behind what was written until then.
Download ==
    /\ pc = "d_begin"
    /\ \E fault \in Faults({"none", "mkdir", "http", "open", "stream", "write",
                            "other", "other_loop"}) :
        /\ faults' = IF fault = "none" THEN faults ELSE faults + 1
        /\ LET start == LogEntry("INFO", fn, "Starting download")
               err   == IF fault \in {"http", "stream"} THEN "RequestException"
                        ELSE IF fault \in {"other", "other_loop"} THEN "Exception"
                        ELSE "OSError:" \o fault
               msg   == IF fault \in {"http", "stream"}
                        THEN "HTTP error occurred while downloading"
                        ELSE IF fault \in {"other", "other_loop"}
                        THEN "Unexpected error during pageviews download"
                        ELSE "File system error while writing"
           IN  IF fault = "none"
               THEN /\ rawFile' = [exists |-> TRUE, kind |-> remote.kind, text |-> remote.text]
                    /\ pipelineLog' = pipelineLog \o
                           <<start, LogEntry("INFO", fn, "Download completed successfully")>>
                    /\ result' = ReturnPath("output_path")
                    /\ pc' = "returned"
                    /\ UNCHANGED <<error, raised, firstError>>
               ELSE /\ IF fault \in {"stream", "write", "other_loop"}
                       THEN rawFile' \in PartialRaw(remote)
                       ELSE rawFile' = rawFile
                    /\ pipelineLog' = pipelineLog \o <<start, LogEntry("ERROR", fn, msg)>>
                    /\ error' = err /\ firstError' = err /\ raised' = err
                    /\ pc' = "raised"
                    /\ UNCHANGED result
    /\ UNCHANGED <<fn, logMark, reload, remote, extractedFile, event_time, csvFile, tVars,
                   dbVars, anVars, calls, dagVars>>

----------------------------------------------------------------------------
(* extract_gzip                                                            *)

\* Lines 21-23: what reading the raw file through gzip and copying it to
\* the output raises. A file of no bytes reads as an empty stream; a file
\* that is not gzip raises BadGzipFile on the first read; a gzip stream
\* that ends early raises EOFError; a write can fail at any point.
CopyError(raw, fault) ==
    IF raw.kind = "empty" THEN NoError
    ELSE IF raw.kind = "other" THEN "BadGzipFile"
    ELSE IF fault = "copy" THEN "OSError:copy"
    ELSE IF raw.kind = "cut" THEN "EOFError"
    ELSE NoError

\* What the output file holds after the copy: everything when the copy
\* completed, otherwise what was written before the exception.
CopyOutputs(raw, err) ==
    IF err = NoError THEN {TextFile(raw.text)}
    ELSE IF err = "BadGzipFile" THEN {TextFile(<<>>)}
    ELSE {TextFile(t) : t \in Prefixes(raw.text)}

\* Lines 18-26, the whole function. There is no try block: whatever
\* mkdir, gzip.open, open or copyfileobj raises leaves the function as it
\* is. The output file is truncated as soon as it is opened.
Extract ==
    /\ pc = "e_begin"
    /\ \E fault \in Faults({"none", "mkdir", "open_out", "copy"}) :
        /\ faults' = IF fault = "none" THEN faults ELSE faults + 1
        /\ LET err == IF fault = "mkdir" THEN "OSError:mkdir"
                      ELSE IF ~rawFile.exists THEN "FileNotFoundError"
                      ELSE IF fault = "open_out" THEN "OSError:open_out"
                      ELSE CopyError(rawFile, fault)
               copied == err \notin {"OSError:mkdir", "FileNotFoundError",
                                     "OSError:open_out"}
           IN  /\ IF copied
                  THEN extractedFile' \in CopyOutputs(rawFile, err)
                  ELSE extractedFile' = extractedFile
               /\ IF err = NoError
                  THEN /\ pipelineLog' = pipelineLog \o
                              <<LogEntry("INFO", fn, "Extracting file"),
                                LogEntry("INFO", fn, "Extraction completed")>>
                       /\ result' = ReturnPath("output_path")
                       /\ pc' = "returned"
                       /\ UNCHANGED <<error, raised, firstError>>
                  ELSE /\ pipelineLog' = Append(pipelineLog,
                                                LogEntry("INFO", fn, "Extracting file"))
                       /\ error' = err /\ firstError' = err /\ raised' = err
                       /\ pc' = "raised"
                       /\ UNCHANGED result
    /\ UNCHANGED <<fn, logMark, reload, remote, rawFile, event_time, csvFile, tVars,
                   dbVars, anVars, calls, dagVars>>

----------------------------------------------------------------------------
(* transform_pageviews                                                     *)

COMPANIES == {"Amazon", "Apple_Inc.", "Facebook", "Google", "Microsoft"}

Header == <<"page_title_id", "page_title", "pageviews",
            "year", "month", "day", "hour">>

\* event_time.replace("-", "")
Normalize(t) == Without(t, "-")

DaysIn(y, m) ==
    IF m \in {4, 6, 9, 11} THEN 30
    ELSE IF m # 2 THEN 31
    ELSE IF (y % 4 = 0 /\ y % 100 # 0) \/ y % 400 = 0 THEN 29 ELSE 28

\* The pieces of text the directives of "%Y%m%d%H" match. strptime turns
\* the format into a regular expression: %Y is four digits, %m is
\* 1[0-2]|0[1-9]|[1-9], %d is 3[0-1]|[1-2]\d|0[1-9]|[1-9]| [1-9] and %H is
\* 2[0-3]|[0-1]\d|\d.
YearText(t)  == Len(t) = 4 /\ AllDigits(t)
MonthText(t) == /\ AllDigits(t)
                /\ \/ Len(t) = 2 /\ Number(t) \in 1..12
                   \/ Len(t) = 1 /\ Number(t) \in 1..9
DayText(t)   == \/ AllDigits(t) /\ Len(t) = 2 /\ Number(t) \in 1..31
                \/ AllDigits(t) /\ Len(t) = 1 /\ Number(t) \in 1..9
                \/ /\ Len(t) = 2 /\ SubSeq(t, 1, 1) = " "
                   /\ IsDigit(SubSeq(t, 2, 2)) /\ Number(SubSeq(t, 2, 2)) \in 1..9
HourText(t)  == /\ AllDigits(t)
                /\ \/ Len(t) = 2 /\ Number(t) \in 0..23
                   \/ Len(t) = 1

\* The widths of month, day and hour in the order in which the regular
\* expression tries them: for each directive its two-character
\* alternatives come before its one-character alternative, and a later
\* directive is retried before an earlier one.
Widths == << <<2, 2, 2>>, <<2, 2, 1>>, <<2, 1, 2>>, <<2, 1, 1>>,
             <<1, 2, 2>>, <<1, 2, 1>>, <<1, 1, 2>>, <<1, 1, 1>> >>

MonthOf(n, w) == SubSeq(n, 5, 4 + w[1])
DayOf(n, w)   == SubSeq(n, 5 + w[1], 4 + w[1] + w[2])
HourOf(n, w)  == SubSeq(n, 5 + w[1] + w[2], 4 + w[1] + w[2] + w[3])

Fits(n, w) ==
    /\ Len(n) >= 4 + w[1] + w[2] + w[3]
    /\ MonthText(MonthOf(n, w))
    /\ DayText(DayOf(n, w))
    /\ HourText(HourOf(n, w))

RECURSIVE FirstFit(_, _)
FirstFit(n, i) ==
    IF i > Len(Widths) THEN <<>>
    ELSE IF Fits(n, Widths[i]) THEN Widths[i]
    ELSE FirstFit(n, i + 1)

\* format_regex.match(data_string): the first way to match from the start
\* of the string, whether or not it reaches the end; <<>> when none does.
StrptimeMatch(n) ==
    IF Len(n) >= 4 /\ YearText(SubSeq(n, 1, 4)) THEN FirstFit(n, 1) ELSE <<>>

\* The fields of the match as integers.
FieldsOf(n, w) ==
    [year  |-> Number(SubSeq(n, 1, 4)),
     month |-> Number(MonthOf(n, w)),
     day   |-> Number(Without(DayOf(n, w), " ")),
     hour  |-> Number(HourOf(n, w))]

\* datetime.strptime(normalized_time, "%Y%m%d%H"): the string matches,
\* nothing remains after the match ("unconverted data remains"
\* otherwise), and the fields make a date (year 0 and February 30 do
\* not); ok tells whether it returns, ts what it returns.
Strptime(n) ==
    LET w == StrptimeMatch(n)
    IN  IF w = <<>> \/ Len(n) # 4 + w[1] + w[2] + w[3]
        THEN [ok |-> FALSE, ts |-> NoTime]
        ELSE LET ts == FieldsOf(n, w)
             IN  [ok |-> ts.year >= 1 /\ ts.day <= DaysIn(ts.year, ts.month),
                  ts |-> ts]

TimeParses(n) == Strptime(n).ok
ParseTime(n)  == Strptime(n).ts

\* The characters str.strip() and str.split() treat as whitespace, among
\* those a string of the model can hold (the characters up to 0xff): the
\* space, \t, \n, \r, \f, the characters 0x0b, 0x1c, 0x1d, 0x1e and 0x1f,
\* the next-line character 0x85 and the no-break space 0xa0.
Whitespace ==
    {" ", "\t", "\n", "\r", "\f", "", "", "", "", "", "", " "}

RECURSIVE SplitFrom(_, _, _, _)
\* The pieces of s from position i on, cur being the piece in progress.
SplitFrom(s, i, cur, acc) ==
    IF i > Len(s)
    THEN IF cur = "" THEN acc ELSE Append(acc, cur)
    ELSE LET c == SubSeq(s, i, i)
         IN  IF c \in Whitespace
             THEN SplitFrom(s, i + 1, "", IF cur = "" THEN acc ELSE Append(acc, cur))
             ELSE SplitFrom(s, i + 1, cur \o c, acc)

\* line.strip().split(): the non-empty pieces between runs of whitespace.
Split(line) == SplitFrom(line, 1, "", <<>>)

\* Lines 85-95, csv.writer.writerow: every value written as its text,
\* the view count as the text of int(pageviews).
CsvRow(id, page_title, pageviews, ts) ==
    <<ToString(id), page_title, IntText(pageviews), ToString(ts.year),
      ToString(ts.month), ToString(ts.day), ToString(ts.hour)>>

\* What is left of a row when the writing stops inside it: some whole
\* fields and the beginning of the next one.
CutRows(written) ==
    UNION {{SubSeq(written, 1, f) \o <<SubSeq(written[f + 1], 1, m)>> :
                m \in (IF f = 0 THEN 1 ELSE 0)..Len(written[f + 1])} :
           f \in 0..(Len(written) - 1)}

\* What is on disk of the rows written when a flush of the output file
\* fails: some whole rows and possibly a cut one.
CsvPrefixes(rows) ==
    {SubSeq(rows, 1, j) : j \in 0..Len(rows)}
    \cup UNION {{Append(SubSeq(rows, 1, j), c) : c \in CutRows(rows[j + 1])} :
                j \in 0..(Len(rows) - 1)}

\* A variant of the length test that lets 3-field lines through.
MalformedBelowThree(parts) == Len(parts) < 3

\* Lines 75-77: a line with fewer than 4 fields is skipped.
Malformed(parts) == Len(parts) < 4

\* Line 84: the watchlist filter.
InWatchlist(page_title) == page_title \in COMPANIES

\* A variant of the iteration that converts the view count before it
\* looks at the title.
LineStepParseFirst(id, out, line, ts) ==
    LET parts == Split(line)
    IN  IF Malformed(parts)
        THEN [id |-> id, out |-> out, err |-> NoError]
        ELSE IF ~IsIntText(parts[3])
        THEN [id |-> id, out |-> out, err |-> "ValueError:int"]
        ELSE IF ~InWatchlist(parts[2])
        THEN [id |-> id, out |-> out, err |-> NoError]
        ELSE [id  |-> id + 1,
              out |-> Append(out, CsvRow(id, parts[2], parts[3], ts)),
              err |-> NoError]

\* Lines 75-96, one iteration of the loop: from the counter and the rows
\* written so far to the counter, the rows and the exception raised.
LineStep(id, out, line, ts) ==
    LET parts == Split(line)
    IN  IF Malformed(parts)
        THEN [id |-> id, out |-> out, err |-> NoError]
        ELSE LET page_title == parts[2]
                 pageviews  == parts[3]
             IN  IF ~InWatchlist(page_title)
                 THEN [id |-> id, out |-> out, err |-> NoError]
                 ELSE IF ~IsIntText(pageviews)
                 THEN [id |-> id, out |-> out, err |-> "ValueError:int"]
                 ELSE [id  |-> id + 1,
                       out |-> Append(out, CsvRow(id, page_title, pageviews, ts)),
                       err |-> NoError]

\* Lines 36-71: log, mkdir, parse the timestamp, open both files, write
\* the header. strptime raises ValueError; mkdir and the opens raise
\* OSError. The header stays in the buffer of the output file: nothing
\* is flushed before the loop.
TransformBegin ==
    /\ pc = "t_begin"
    /\ LET info == LogEntry("INFO", fn, "Starting pageviews transformation")
           time == Strptime(Normalize(event_time))
       IN  \E fault \in Faults({"none", "mkdir", "open_in", "open_out"}) :
            LET err == IF fault = "mkdir" THEN "OSError:mkdir"
                       ELSE IF ~time.ok THEN "ValueError:strptime"
                       ELSE IF fault = "open_in" \/ ~extractedFile.exists
                            THEN "OSError:open_in"
                       ELSE IF fault = "open_out" THEN "OSError:open_out"
                       ELSE NoError
            IN  /\ faults' = IF fault = "none" THEN faults ELSE faults + 1
                /\ pipelineLog' = Append(pipelineLog, info)
                /\ timestamp' = IF fault # "mkdir" /\ time.ok THEN time.ts ELSE timestamp
                /\ IF err = NoError
                   THEN /\ page_title_id' = 1
                        /\ tIdx' = 0
                        /\ csvFile' = CsvFile(<<Header>>)
                        /\ pc' = "t_loop"
                        /\ UNCHANGED <<error, firstError>>
                   ELSE /\ page_title_id' = IF err \in {"OSError:open_in", "OSError:open_out"}
                                            THEN 1 ELSE page_title_id
                        /\ error' = err /\ firstError' = err
                        /\ pc' = "t_except"
                        /\ UNCHANGED <<tIdx, csvFile>>
    /\ UNCHANGED <<fn, raised, result, logMark, reload, remote, rawFile, extractedFile,
                   event_time, dbVars, anVars, calls, dagVars>>

\* Lines 73-96: one iteration of the loop over infile. Besides what the
\* line itself raises, reading the line can fail ("read"), writerow can
\* fail when it flushes ("write"), and when an exception leaves the with
\* block the closing of the output file can fail in its turn ("close"),
\* which replaces the exception in flight. A failed flush leaves any
\* beginning of the rows written on disk.
TransformLine ==
    /\ pc = "t_loop"
    /\ tIdx < Len(extractedFile.lines)
    /\ LET step  == LineStep(page_title_id, csvFile.rows,
                             extractedFile.lines[tIdx + 1], timestamp)
           wrote == Len(step.out) > Len(csvFile.rows)
           kinds == {"none", "read"}
                    \cup (IF wrote THEN {"write"} ELSE {})
                    \cup (IF step.err # NoError THEN {"close"} ELSE {})
       IN  \E fault \in Faults(kinds) :
            /\ faults' = IF fault = "none" THEN faults ELSE faults + 1
            /\ IF fault = "none"
               THEN /\ tIdx' = tIdx + 1
                    /\ page_title_id' = step.id
                    /\ csvFile' = CsvFile(step.out)
                    /\ IF step.err = NoError
                       THEN UNCHANGED <<pc, error, firstError>>
                       ELSE /\ error' = step.err
                            /\ firstError' = step.err
                            /\ pc' = "t_except"
               ELSE IF fault = "read"
               THEN /\ error' = "OSError:read" /\ firstError' = "OSError:read"
                    /\ pc' = "t_except"
                    /\ UNCHANGED <<tIdx, page_title_id, csvFile>>
               ELSE /\ tIdx' = tIdx + 1
                    /\ page_title_id' = page_title_id
                    /\ csvFile' \in {CsvFile(r) : r \in CsvPrefixes(step.out)}
                    /\ error' = "OSError:" \o fault
                    /\ firstError' = IF fault = "close" THEN step.err ELSE "OSError:write"
                    /\ pc' = "t_except"
    /\ UNCHANGED <<fn, raised, result, pipelineLog, logMark, reload, remote, rawFile,
                   extractedFile, event_time, timestamp, dbVars, anVars, calls, dagVars>>

\* Lines 54-56 and 98-101: the loop is over and the with block is left,
\* which flushes and closes the output file; then log and return the
\* output path. When the closing fails the function goes to its except
\* clause and any beginning of the rows written is on disk.
TransformReturn ==
    /\ pc = "t_loop"
    /\ tIdx = Len(extractedFile.lines)
    /\ \E fault \in Faults({"none", "close"}) :
        /\ faults' = IF fault = "none" THEN faults ELSE faults + 1
        /\ IF fault = "none"
           THEN /\ pipelineLog' = Append(pipelineLog,
                       LogEntry("INFO", fn, "Transformation completed successfully"))
                /\ result' = ReturnPath("output_file")
                /\ pc' = "returned"
                /\ UNCHANGED <<error, firstError, csvFile>>
           ELSE /\ csvFile' \in {CsvFile(r) : r \in CsvPrefixes(csvFile.rows)}
                /\ error' = "OSError:close" /\ firstError' = "OSError:close"
                /\ pc' = "t_except"
                /\ UNCHANGED <<result, pipelineLog>>
    /\ UNCHANGED <<fn, raised, logMark, reload, remote, rawFile, extractedFile, event_time,
                   tVars, dbVars, anVars, calls, dagVars>>

\* Lines 103-107: logger.exception, then the bare raise.
TransformExcept ==
    /\ pc = "t_except"
    /\ pipelineLog' = Append(pipelineLog,
            LogEntry("ERROR", fn, "Pageviews transformation failed"))
    /\ raised' = error
    /\ pc' = "raised"
    /\ UNCHANGED <<fn, error, firstError, result, logMark, reload, fileVars, tVars,
                   dbVars, anVars, calls, faults, dagVars>>

TransformStep == TransformBegin \/ TransformLine \/ TransformReturn \/ TransformExcept

\* Lines 73-96, the whole loop: it stops at the first line that raises,
\* with the rows written until then in the file.
RECURSIVE RunLines(_, _, _, _)
RunLines(id, out, lines, ts) ==
    IF lines = <<>> THEN [id |-> id, out |-> out, err |-> NoError]
    ELSE LET step == LineStep(id, out, Head(lines), ts)
         IN  IF step.err # NoError THEN step
             ELSE RunLines(step.id, step.out, Tail(lines), ts)

\* launch_sentiment_analysis_dag.py, line 17.
ExecutionHour == "20251210-16"

\* Lines 36-101 when the filesystem does not fail, as a function of
\* input_file, event_time and what output_file held before: output_file
\* afterwards and the exception raised. A timestamp that does not parse
\* raises before output_file is opened.
TransformOutput(input, time, before) ==
    LET parsed == Strptime(Normalize(time))
    IN  IF ~parsed.ok
        THEN [id |-> 0, out |-> before, err |-> "ValueError:strptime"]
        ELSE IF ~input.exists
        THEN [id |-> 1, out |-> before, err |-> "OSError:open_in"]
        ELSE LET done == RunLines(1, <<Header>>, input.lines, parsed.ts)
             IN  [id |-> done.id, out |-> CsvFile(done.out), err |-> done.err]

----------------------------------------------------------------------------
(* db.py: postgres_cursor, shared by the loader and the analyzer.          *)

\* Lines 31-34: PostgresHook(...).get_conn(). Raising here leaves nothing
\* acquired; the generator has not reached its try block.
PgGetConn ==
    /\ pc = "pg_get_conn"
    /\ \E ok \in MayFail :
        /\ faults' = IF ok THEN faults ELSE faults + 1
        /\ IF ok
           THEN /\ connOpen' = TRUE
                /\ txn' = store
                /\ pc' = "pg_cursor"
                /\ UNCHANGED <<error, raised, firstError>>
           ELSE /\ error' = "OperationalError:get_conn"
                /\ firstError' = "OperationalError:get_conn"
                /\ raised' = "OperationalError:get_conn"
                /\ pc' = "raised"
                /\ UNCHANGED <<connOpen, txn>>
    /\ UNCHANGED <<fn, result, pipelineLog, logMark, reload, fileVars, tVars, store, cursorOpen,
                   commits, csvPos, storeAtCall, anVars, calls, dagVars>>

\* Line 35: connection.cursor(), still before the try block.
PgCursor ==
    /\ pc = "pg_cursor"
    /\ \E ok \in MayFail :
        /\ faults' = IF ok THEN faults ELSE faults + 1
        /\ IF ok
           THEN /\ cursorOpen' = TRUE
                /\ pc' = IF fn = "load_to_postgres" THEN "l_create" ELSE "a_query"
                /\ UNCHANGED <<error, raised, firstError>>
           ELSE /\ error' = "InterfaceError:cursor"
                /\ firstError' = "InterfaceError:cursor"
                /\ raised' = "InterfaceError:cursor"
                /\ pc' = "raised"
                /\ UNCHANGED cursorOpen
    /\ UNCHANGED <<fn, result, pipelineLog, logMark, reload, fileVars, tVars, store, txn, connOpen,
                   commits, csvPos, storeAtCall, anVars, calls, dagVars>>

\* Line 39: connection.commit() after the body ended normally.
PgCommit ==
    /\ pc = "pg_commit"
    /\ \E ok \in MayFail :
        /\ faults' = IF ok THEN faults ELSE faults + 1
        /\ IF ok
           THEN /\ store' = txn
                /\ commits' = commits + 1
                /\ pc' = "pg_finally"
                /\ UNCHANGED <<error, firstError>>
           ELSE /\ error' = "OperationalError:commit"
                /\ firstError' = "OperationalError:commit"
                /\ pc' = "pg_except"
                /\ UNCHANGED <<store, commits>>
    /\ UNCHANGED <<fn, raised, result, pipelineLog, logMark, reload, fileVars, tVars, txn, connOpen,
                   cursorOpen, csvPos, storeAtCall, anVars, calls, dagVars>>

\* Lines 40-43: rollback, logger.exception, raise. An exception raised by
\* rollback itself replaces the one being handled and skips the logging.
PgExcept ==
    /\ pc = "pg_except"
    /\ \E ok \in MayFail :
        /\ faults' = IF ok THEN faults ELSE faults + 1
        /\ IF ok
           THEN /\ txn' = store
                /\ pipelineLog' = Append(pipelineLog,
                       LogEntry("ERROR", "postgres_cursor",
                                "Postgres transaction failed and was rolled back"))
                /\ UNCHANGED error
           ELSE /\ error' = "InterfaceError:rollback"
                /\ UNCHANGED <<txn, pipelineLog>>
    /\ pc' = "pg_finally"
    /\ UNCHANGED <<fn, raised, firstError, result, logMark, reload, fileVars, tVars, store, connOpen,
                   cursorOpen, commits, csvPos, storeAtCall, anVars, calls, dagVars>>

\* Line 45: cursor.close(). When it raises, line 46 is never reached.
PgFinally ==
    /\ pc = "pg_finally"
    /\ \E ok \in MayFail :
        /\ faults' = IF ok THEN faults ELSE faults + 1
        /\ IF ok
           THEN /\ cursorOpen' = FALSE
                /\ pc' = "pg_close"
                /\ UNCHANGED <<error, firstError>>
           ELSE /\ error' = "InterfaceError:cursor_close"
                /\ firstError' = IF firstError = NoError
                                 THEN "InterfaceError:cursor_close" ELSE firstError
                /\ pc' = "pg_exit"
                /\ UNCHANGED cursorOpen
    /\ UNCHANGED <<fn, raised, result, pipelineLog, logMark, reload, fileVars, tVars, store, txn,
                   connOpen, commits, csvPos, storeAtCall, anVars, calls, dagVars>>

\* Lines 46-47: connection.close(); what was not committed is gone.
PgClose ==
    /\ pc = "pg_close"
    /\ \E ok \in MayFail :
        /\ faults' = IF ok THEN faults ELSE faults + 1
        /\ IF ok
           THEN /\ connOpen' = FALSE
                /\ txn' = EmptyDb
                /\ UNCHANGED <<error, firstError>>
           ELSE /\ error' = "InterfaceError:close"
                /\ firstError' = IF firstError = NoError
                                 THEN "InterfaceError:close" ELSE firstError
                /\ UNCHANGED <<connOpen, txn>>
    /\ pc' = "pg_exit"
    /\ UNCHANGED <<fn, raised, result, pipelineLog, logMark, reload, fileVars, tVars, store,
                   cursorOpen, commits, csvPos, storeAtCall, anVars, calls, dagVars>>

\* The with statement is left: the pending exception reaches the caller
\* of the stage function, or the function goes on after the block.
PgExit ==
    /\ pc = "pg_exit"
    /\ IF error # NoError
       THEN /\ raised' = error
            /\ pc' = "raised"
       ELSE /\ pc' = IF fn = "load_to_postgres" THEN "l_end" ELSE "a_after"
            /\ UNCHANGED raised
    /\ UNCHANGED <<fn, error, firstError, result, pipelineLog, logMark, reload, fileVars, tVars,
                   dbVars, anVars, calls, faults, dagVars>>

PgStep == PgGetConn \/ PgCursor \/ PgCommit \/ PgExcept \/ PgFinally \/ PgClose \/ PgExit

----------------------------------------------------------------------------
(* db.py: load_to_postgres                                                 *)

\* csv.DictReader: the first row of the file gives the field names.
FieldNames(file) == IF file.rows = <<>> THEN <<>> ELSE file.rows[1]

\* csv.DictReader: the rows after the first are the data rows, the
\* empty ones (blank lines) skipped.
Records(file) ==
    IF file.rows = <<>> THEN <<>>
    ELSE SelectSeq(Tail(file.rows), LAMBDA cells : Len(cells) > 0)

DataRows(file) == Len(Records(file))

\* Lines 99-105, row["..."]: a name that is no field name raises KeyError.
HasField(file, name) == \E k \in 1..Len(FieldNames(file)) : FieldNames(file)[k] = name

\* csv.DictReader: the value of the r-th data row under a field name.
\* Under a name that is there several times the last cell counts; a row
\* shorter than the field names has None (restval) for the missing ones.
Field(file, r, name) ==
    LET names == FieldNames(file)
        i     == CHOOSE k \in 1..Len(names) :
                    /\ names[k] = name
                    /\ \A j \in (k + 1)..Len(names) : names[j] # name
        cells == Records(file)[r]
    IN  IF i <= Len(cells) THEN [null |-> FALSE, text |-> cells[i]]
                           ELSE [null |-> TRUE, text |-> ""]

\* The white space the integer input of the database skips at both ends.
PgSpace == {" ", "\t", "\n", "\r", "\f", ""}

RECURSIVE PgTrim(_)
PgTrim(s) ==
    IF s = "" THEN s
    ELSE IF SubSeq(s, 1, 1) \in PgSpace THEN PgTrim(SubSeq(s, 2, Len(s)))
    ELSE IF SubSeq(s, Len(s), Len(s)) \in PgSpace THEN PgTrim(SubSeq(s, 1, Len(s) - 1))
    ELSE s

\* The digits of an integer text, after the sign.
PgDigits(s) ==
    LET t == PgTrim(s)
    IN  IF Len(t) > 0 /\ SubSeq(t, 1, 1) \in {"+", "-"} THEN SubSeq(t, 2, Len(t)) ELSE t

\* a <= b for two digit texts of the same length.
RECURSIVE LeqDigits(_, _)
LeqDigits(a, b) ==
    IF a = "" THEN TRUE
    ELSE IF DigitVal(SubSeq(a, 1, 1)) # DigitVal(SubSeq(b, 1, 1))
         THEN DigitVal(SubSeq(a, 1, 1)) < DigitVal(SubSeq(b, 1, 1))
    ELSE LeqDigits(SubSeq(a, 2, Len(a)), SubSeq(b, 2, Len(b)))

\* Lines 68-76, the INTEGER columns: the texts the database accepts for
\* them are an optional sign and decimal digits, of a value from
\* -2147483648 to 2147483647. Any other text fails the INSERT.
PgIntegerOk(s) ==
    LET d == PgDigits(s)
        z == StripZeros(d)
        top == IF Len(PgTrim(s)) > 0 /\ SubSeq(PgTrim(s), 1, 1) = "-"
               THEN "2147483648" ELSE "2147483647"
    IN  /\ d # ""
        /\ AllDigits(d)
        /\ \/ Len(z) < Len(top)
           \/ Len(z) = Len(top) /\ LeqDigits(z, top)

\* An INTEGER column's reading of a text it accepts.
PgInteger(s) ==
    IF Len(PgTrim(s)) > 0 /\ SubSeq(PgTrim(s), 1, 1) = "-"
    THEN Negative(PgDigits(s)) ELSE Number(PgDigits(s))

IntegerColumns == {"page_title_id", "pageviews", "year", "month", "day", "hour"}
Columns == IntegerColumns \cup {"page_title"}

\* Lines 98-106 and the INTEGER columns: the tuple handed to the INSERT,
\* as the table stores it.
Values(file, r) ==
    [page_title_id |-> PgInteger(Field(file, r, "page_title_id").text),
     page_title    |-> Field(file, r, "page_title").text,
     pageviews     |-> PgInteger(Field(file, r, "pageviews").text),
     year          |-> PgInteger(Field(file, r, "year").text),
     month         |-> PgInteger(Field(file, r, "month").text),
     day           |-> PgInteger(Field(file, r, "day").text),
     hour          |-> PgInteger(Field(file, r, "hour").text)]

\* Lines 83-107 on one data row, before the table is touched: the
\* exception it raises. row["..."] raises KeyError when building the
\* tuple; the INSERT raises DataError for a text an INTEGER column does
\* not accept, and a None under a NOT NULL column violates it.
RowError(file, r) ==
    IF \E c \in Columns : ~HasField(file, c) THEN "KeyError"
    ELSE IF \E c \in IntegerColumns :
                /\ ~Field(file, r, c).null
                /\ ~PgIntegerOk(Field(file, r, c).text)
         THEN "DataError"
    ELSE IF \E c \in Columns : Field(file, r, c).null THEN "NotNullViolation"
    ELSE NoError

\* A variant of the INSERT: ON CONFLICT ... DO UPDATE.
InsertOrUpdate(rows, v) == {x \in rows : x.page_title_id # v.page_title_id} \cup {v}

\* Line 96: ON CONFLICT (page_title_id) DO NOTHING never raises on a key
\* that is already there ...
ConflictRaises(rows, v) == FALSE

\* ... and leaves the row that is there as it is.
Insert(rows, v) ==
    IF \E x \in rows : x.page_title_id = v.page_title_id
    THEN rows
    ELSE rows \cup {v}

\* Line 61.
LoadBegin ==
    /\ pc = "l_begin"
    /\ pipelineLog' = Append(pipelineLog,
            LogEntry("INFO", fn, "Loading transformed data into Postgres"))
    /\ pc' = "pg_get_conn"
    /\ UNCHANGED <<fn, error, raised, firstError, result, logMark, reload, fileVars, tVars,
                   dbVars, anVars, calls, faults, dagVars>>

\* Lines 65-77: CREATE TABLE IF NOT EXISTS.
LoadCreateTable ==
    /\ pc = "l_create"
    /\ \E ok \in MayFail :
        /\ faults' = IF ok THEN faults ELSE faults + 1
        /\ IF ok
           THEN /\ txn' = [txn EXCEPT !.table = TRUE]
                /\ pc' = "l_open"
                /\ UNCHANGED <<error, firstError>>
           ELSE /\ error' = "DatabaseError:create"
                /\ firstError' = "DatabaseError:create"
                /\ pc' = "pg_except"
                /\ UNCHANGED txn
    /\ UNCHANGED <<fn, raised, result, pipelineLog, logMark, reload, fileVars, tVars, store, connOpen,
                   cursorOpen, commits, csvPos, storeAtCall, anVars, calls, dagVars>>

\* Lines 80-81: open the CSV file and wrap it in a DictReader.
LoadOpen ==
    /\ pc = "l_open"
    /\ \E ok \in MayFail :
        /\ faults' = IF ok THEN faults ELSE faults + 1
        /\ IF ok /\ csvFile.exists
           THEN /\ csvPos' = 0
                /\ pc' = "l_rows"
                /\ UNCHANGED <<error, firstError>>
           ELSE /\ error' = "OSError:open_csv"
                /\ firstError' = "OSError:open_csv"
                /\ pc' = "pg_except"
                /\ UNCHANGED csvPos
    /\ UNCHANGED <<fn, raised, result, pipelineLog, logMark, reload, fileVars, tVars, store, txn,
                   connOpen, cursorOpen, commits, storeAtCall, anVars, calls, dagVars>>

\* Lines 83-107: one iteration of the loop over the reader. The reading
\* of the row and the INSERT can fail for reasons outside the file.
LoadRow ==
    /\ pc = "l_rows"
    /\ csvPos < DataRows(csvFile)
    /\ \E fault \in Faults({"none", "read", "insert"}) :
        /\ faults' = IF fault = "none" THEN faults ELSE faults + 1
        /\ LET bad == RowError(csvFile, csvPos + 1)
               err == IF fault = "read" THEN "OSError:read_csv"
                      ELSE IF bad = "KeyError" THEN bad
                      ELSE IF fault = "insert" THEN "DatabaseError:insert"
                      ELSE IF bad # NoError THEN bad
                      ELSE IF ConflictRaises(txn.rows, Values(csvFile, csvPos + 1))
                           THEN "UniqueViolation"
                      ELSE NoError
           IN  IF err # NoError
               THEN /\ error' = err
                    /\ firstError' = err
                    /\ pc' = "pg_except"
                    /\ UNCHANGED <<txn, csvPos>>
               ELSE /\ txn' = [txn EXCEPT !.rows =
                                    Insert(txn.rows, Values(csvFile, csvPos + 1))]
                    /\ csvPos' = csvPos + 1
                    /\ UNCHANGED <<pc, error, firstError>>
    /\ UNCHANGED <<fn, raised, result, pipelineLog, logMark, reload, fileVars, tVars, store, connOpen,
                   cursorOpen, commits, storeAtCall, anVars, calls, dagVars>>

\* The reader is exhausted: both with blocks' bodies are done.
LoadRowsDone ==
    /\ pc = "l_rows"
    /\ csvPos = DataRows(csvFile)
    /\ pc' = "pg_commit"
    /\ UNCHANGED <<fn, error, raised, firstError, result, pipelineLog, logMark, reload, fileVars,
                   tVars, dbVars, anVars, calls, faults, dagVars>>

\* Line 109.
LoadEnd ==
    /\ pc = "l_end"
    /\ pipelineLog' = Append(pipelineLog,
            LogEntry("INFO", fn, "Data successfully loaded into Postgres"))
    /\ result' = ReturnNone
    /\ pc' = "returned"
    /\ UNCHANGED <<fn, error, raised, firstError, logMark, reload, fileVars, tVars,
                   dbVars, anVars, calls, faults, dagVars>>

LoadStep == LoadBegin \/ LoadCreateTable \/ LoadOpen \/ LoadRow \/ LoadRowsDone \/ LoadEnd

----------------------------------------------------------------------------
(* db.py: get_most_viewed_page                                             *)

GroupKey(r) == <<r.page_title, r.year, r.month, r.day, r.hour>>

RECURSIVE SumViews(_)
SumViews(rows) ==
    IF rows = {} THEN 0
    ELSE LET r == CHOOSE x \in rows : TRUE
         IN  r.pageviews + SumViews(rows \ {r})

\* Lines 128-137: SELECT ..., SUM(pageviews) ... GROUP BY ...
Grouped(rows) ==
    {Append(k, SumViews({r \in rows : GroupKey(r) = k})) : k \in {GroupKey(r) : r \in rows}}

\* A variant of the ordering: ascending.
TopRowsAscending(rows) == {g \in Grouped(rows) : \A h \in Grouped(rows) : h[6] >= g[6]}

\* Lines 138-139: ORDER BY total_pageviews DESC LIMIT 1. Which of several
\* rows with the largest total comes first is the store's choice.
TopRows(rows) == {g \in Grouped(rows) : \A h \in Grouped(rows) : h[6] <= g[6]}

\* The format specification 02d.
Pad2(n) == IF n >= 0 /\ n < 10 THEN "0" \o ToString(n) ELSE ToString(n)

\* Lines 163-169.
ReportMessage(res) ==
    "Most viewed Wikipedia page: '" \o res.page_title \o "' | Total views: "
    \o ToString(res.total_pageviews) \o " | Time window: "
    \o ToString(res.year) \o "-" \o Pad2(res.month) \o "-" \o Pad2(res.day)
    \o " at " \o Pad2(res.hour) \o ":00"

\* Lines 150-157.
ResultOf(r) == [page_title |-> r[1], year |-> r[2], month |-> r[3],
                day |-> r[4], hour |-> r[5], total_pageviews |-> r[6]]

\* Line 126.
AnalyzeBegin ==
    /\ pc = "a_begin"
    /\ pipelineLog' = Append(pipelineLog, LogEntry("INFO", fn, "Running analysis"))
    /\ pc' = "pg_get_conn"
    /\ UNCHANGED <<fn, error, raised, firstError, result, logMark, reload, fileVars, tVars,
                   dbVars, anVars, calls, faults, dagVars>>

\* Lines 143-144: execute the query and fetch one row. The query raises
\* when the table was never created.
AnalyzeQuery ==
    /\ pc = "a_query"
    /\ \E ok \in MayFail :
        /\ faults' = IF ok THEN faults ELSE faults + 1
        /\ IF ok /\ txn.table
           THEN /\ \/ /\ txn.rows = {}
                      /\ row' = <<>>
                   \/ \E g \in TopRows(txn.rows) : row' = <<g>>
                /\ pc' = "pg_commit"
                /\ UNCHANGED <<error, firstError>>
           ELSE /\ error' = IF ok THEN "UndefinedTable" ELSE "DatabaseError:query"
                /\ firstError' = IF ok THEN "UndefinedTable" ELSE "DatabaseError:query"
                /\ pc' = "pg_except"
                /\ UNCHANGED row
    /\ UNCHANGED <<fn, raised, result, pipelineLog, logMark, reload, fileVars, tVars, dbVars,
                   analysisLog, analysisAtCall, calls, dagVars>>

\* A variant of the empty case without the test of line 146: row[0] on
\* None raises TypeError.
AnalyzeEmptyUnguarded ==
    /\ pc = "a_after"
    /\ row = <<>>
    /\ error' = "TypeError" /\ firstError' = "TypeError" /\ raised' = "TypeError"
    /\ pc' = "raised"
    /\ UNCHANGED <<fn, result, pipelineLog, logMark, reload, fileVars, tVars,
                   dbVars, anVars, calls, faults, dagVars>>

\* Lines 146-148: no row is not an error.
AnalyzeEmpty ==
    /\ pc = "a_after"
    /\ row = <<>>
    /\ pipelineLog' = Append(pipelineLog,
            LogEntry("WARNING", fn, "No data found in wikipedia_pageviews table"))
    /\ result' = ReturnDict(<<>>)
    /\ pc' = "returned"
    /\ UNCHANGED <<fn, error, raised, firstError, logMark, reload, fileVars, tVars,
                   dbVars, anVars, calls, faults, dagVars>>

\* Lines 172-173: the file opened for appending, message + "\n" written
\* and the file closed: the message lands behind whatever the file ends
\* with.
AppendLine(log, message) ==
    [lines |-> Append(log.lines, log.cut \o message), cut |-> ""]

\* Lines 172-173 when the write or the closing fails: a beginning of
\* message + "\n" is in the file. The beginnings explored are those of
\* at most MaxCut characters, the message without its terminator, and
\* the whole line.
PartialAppends(log, message) ==
    {[lines |-> log.lines, cut |-> log.cut \o SubSeq(message, 1, m)] :
        m \in {k \in 0..Len(message) : k <= MaxCut \/ k = Len(message)}}
    \cup {AppendLine(log, message)}

\* Lines 150-177: build the result, append the report line, return.
\* mkdir, open, write and close raise OSError, which nothing here catches.
AnalyzeReport ==
    /\ pc = "a_after"
    /\ row # <<>>
    /\ \E fault \in Faults({"none", "mkdir", "open", "write"}) :
        /\ faults' = IF fault = "none" THEN faults ELSE faults + 1
        /\ LET res == ResultOf(row[1])
           IN  IF fault = "none"
               THEN /\ analysisLog' = AppendLine(analysisLog, ReportMessage(res))
                    /\ pipelineLog' = Append(pipelineLog,
                           LogEntry("INFO", fn, ReportMessage(res)))
                    /\ result' = ReturnDict(<<res>>)
                    /\ pc' = "returned"
                    /\ UNCHANGED <<error, raised, firstError>>
               ELSE /\ error' = "OSError:" \o fault
                    /\ firstError' = "OSError:" \o fault
                    /\ raised' = "OSError:" \o fault
                    /\ pc' = "raised"
                    /\ IF fault = "write"
                       THEN analysisLog' \in PartialAppends(analysisLog, ReportMessage(res))
                       ELSE analysisLog' = analysisLog
                    /\ UNCHANGED <<pipelineLog, result>>
    /\ UNCHANGED <<fn, logMark, reload, fileVars, tVars, dbVars, analysisAtCall, row,
                   calls, dagVars>>

AnalyzeStep == AnalyzeBegin \/ AnalyzeQuery \/ AnalyzeEmpty \/ AnalyzeReport

----------------------------------------------------------------------------
(* The loader and the analyzer called any number of times, in any order.   *)

Returned == pc \in {"idle", "returned", "raised"}

Line(title, count) == "en " \o title \o " " \o count \o " 0"

\* Extracted texts: the last one holds a view count above 2147483647.
LoadTexts ==
    {<<>>,
     <<Line("Amazon", "7"), Line("Google", "3")>>,
     <<Line("Google", "7"), Line("Some_Other_Page", "7"), Line("Amazon", "7"),
       Line("Google", "3")>>,
     <<Line("Amazon", "3000000000")>>}

LaterHour == "20251210-17"

Transformed ==
    {TransformOutput(TextFile(text), ExecutionHour, NoFile) : text \in LoadTexts}
    \cup {TransformOutput(TextFile(<<Line("Google", "7")>>), LaterHour, NoFile)}

\* The files transform_pageviews writes when it succeeds.
TransformedCsv == {t.out : t \in {u \in Transformed : u.err = NoError}}

\* Other files at csv_file: none, an empty one, what a transform that
\* failed while writing left (a row without its last fields), a file
\* with a blank line and a second pageviews column, and a file with
\* other field names.
OtherCsv ==
    {NoFile,
     CsvFile(<<>>),
     CsvFile(<<Header, <<"1", "Amazon">>>>),
     CsvFile(<<Header \o <<"pageviews">>, <<>>,
               <<"1", "Amazon", "7", "2025", "12", "10", "16", "9">>>>),
     CsvFile(<<<<"page_title_id", "page_title">>, <<"1", "Amazon">>>>)}

CsvFiles == TransformedCsv \cup OtherCsv

InvokeLoad ==
    /\ Returned
    /\ calls < MaxCalls
    /\ calls' = calls + 1
    /\ \E file \in CsvFiles : Enter("load_to_postgres", "l_begin", file)
    /\ UNCHANGED <<remote, rawFile, extractedFile, event_time, faults, dagVars>>

InvokeAnalyze ==
    /\ Returned
    /\ calls < MaxCalls
    /\ calls' = calls + 1
    /\ Enter("get_most_viewed_page", "a_begin", csvFile)
    /\ UNCHANGED <<remote, rawFile, extractedFile, event_time, faults, dagVars>>

InitDb == InitWith("none", "idle", NoRaw, NoText, ExecutionHour, NoFile)

NextDb == InvokeLoad \/ InvokeAnalyze \/ PgStep \/ LoadStep \/ AnalyzeStep

SpecDb == InitDb /\ [][NextDb]_vars

----------------------------------------------------------------------------
(* launch_sentiment_analysis_dag.py: the DAG and the scheduler's handling  *)
(* of one run of it.                                                       *)

\* A variant of the retry count.
RetriesOneMore == 3 + 1

\* Line 22: "retries": 3.
retries == 3

\* Lines 36-83: the operators in the order of the chain
\* download >> extract >> transform >> load >> analyze, each with its
\* python_callable and the position its code starts at.
Chain == <<[callable |-> "download_pageviews",   start |-> "d_begin"],
           [callable |-> "extract_gzip",         start |-> "e_begin"],
           [callable |-> "transform_pageviews",  start |-> "t_begin"],
           [callable |-> "load_to_postgres",     start |-> "l_begin"],
           [callable |-> "get_most_viewed_page", start |-> "a_begin"]>>

\* The scheduler starts the next attempt of the task whose upstream task
\* succeeded. The callable's arguments are the op_kwargs: paths, hence the
\* files as they are on disk, and EXECUTION_HOUR.
TaskStart ==
    /\ run = "running"
    /\ pc = "idle"
    /\ try_number' = try_number + 1
    /\ event_time' = ExecutionHour
    /\ Enter(Chain[task].callable, Chain[task].start, csvFile)
    /\ UNCHANGED <<remote, rawFile, extractedFile, calls, faults, task, run, history>>

\* The callable returned: the task instance succeeds and the downstream
\* task becomes eligible, or the run is complete.
TaskSuccess ==
    /\ run = "running"
    /\ pc = "returned"
    /\ history' = Append(history, [task |-> task, ok |-> TRUE])
    /\ pc' = "idle"
    /\ IF task = Len(Chain)
       THEN /\ run' = "success"
            /\ UNCHANGED <<task, try_number>>
       ELSE /\ task' = task + 1
            /\ try_number' = 0
            /\ UNCHANGED run
    /\ UNCHANGED <<fn, error, raised, firstError, result, pipelineLog, logMark, reload, fileVars,
                   tVars, dbVars, anVars, calls, faults>>

\* The callable raised: up_for_retry while attempts remain, else the task
\* fails, everything downstream is upstream_failed and the run fails.
TaskFailure ==
    /\ run = "running"
    /\ pc = "raised"
    /\ history' = Append(history, [task |-> task, ok |-> FALSE])
    /\ pc' = "idle"
    /\ run' = IF try_number <= retries THEN "running" ELSE "failed"
    /\ UNCHANGED <<fn, error, raised, firstError, result, pipelineLog, logMark, reload, fileVars,
                   tVars, dbVars, anVars, calls, faults, task, try_number>>

RawDumps ==
    {[exists |-> TRUE, kind |-> "gzip",
      text |-> <<Line("Amazon", "7"), Line("Google", "3")>>],
     [exists |-> TRUE, kind |-> "gzip",  text |-> <<Line("Amazon", "abc")>>],
     [exists |-> TRUE, kind |-> "gzip",  text |-> <<>>],
     [exists |-> TRUE, kind |-> "cut",   text |-> <<Line("Amazon", "7")>>],
     [exists |-> TRUE, kind |-> "empty", text |-> <<>>],
     [exists |-> TRUE, kind |-> "other", text |-> <<>>]}

\* The DAG file imports the four stage modules (lines 5-8), and
\* extract_pageviews.py (line 4) imports its logger from launch_sentiment,
\* a package that is not in this repository: where that name does not
\* resolve the DAG file cannot be imported and no task ever runs.
Init ==
    \E url \in RawDumps :
        /\ fn = "none" /\ pc = "idle"
        /\ error = NoError /\ raised = NoError /\ firstError = NoError
        /\ result = ReturnNone
        /\ pipelineLog = <<>> /\ logMark = 0 /\ reload = FALSE
        /\ remote = url
        /\ rawFile = NoRaw /\ extractedFile = NoText
        /\ event_time = ExecutionHour /\ csvFile = NoFile
        /\ timestamp = NoTime /\ page_title_id = 0 /\ tIdx = 0
        /\ store = EmptyDb /\ txn = EmptyDb /\ connOpen = FALSE /\ cursorOpen = FALSE
        /\ commits = 0 /\ csvPos = 0 /\ storeAtCall = EmptyDb
        /\ analysisLog = EmptyLog /\ analysisAtCall = EmptyLog /\ row = <<>>
        /\ calls = 0 /\ faults = 0
        /\ task = 1 /\ try_number = 0 /\ history = <<>>
        /\ run \in {"running", "import_error"}

Next ==
    \/ TaskStart \/ TaskSuccess \/ TaskFailure
    \/ Download \/ Extract \/ TransformStep \/ PgStep \/ LoadStep \/ AnalyzeStep

Spec == Init /\ [][Next]_vars

----------------------------------------------------------------------------
(* Inputs of the transform.                                                *)

\* Execution timestamps: the DAG's, one whose month is 13, one whose day
\* has a single digit, and a February 30.
EventTimes == {ExecutionHour, "20251310-16", "2025121-16", "20250230-16"}

TestLines ==
    {"en Amazon 7 0",
     "en Amazon abc 0",
     "en Some_Other_Page abc 0",
     "en amazon 7 0",
     "",
     "en X",
     "en Amazon 7",
     " 23Apple_Inc.\t451999x",
     "en Google +01_0 0"}

RECURSIVE SeqsUpTo(_, _)
SeqsUpTo(S, n) ==
    IF n = 0 THEN {<<>>}
    ELSE LET shorter == SeqsUpTo(S, n - 1)
         IN  shorter \cup {Append(q, x) : q \in {r \in shorter : Len(r) = n - 1}, x \in S}

InitTransform ==
    \E input \in {TextFile(text) : text \in SeqsUpTo(TestLines, MaxLines)} \cup {NoText},
       time \in EventTimes :
        InitWith("transform_pageviews", "t_begin", NoRaw, input, time, NoFile)

NextTransform == TransformStep

SpecTransform == InitTransform /\ [][NextTransform]_vars

----------------------------------------------------------------------------
(* The properties.                                                         *)

\* The fields of a line, read off the line itself: the maximal runs of
\* characters other than whitespace, from left to right.
IsBlank(line, i) ==
    SubSeq(line, i, i) \in {" ", "\t", "\n", "\r", "\f", "", "", "", "", "",
                            "", " "}

RECURSIVE EndOf(_, _)
\* The last position of the run of non-blank characters that holds i.
EndOf(line, i) ==
    IF i = Len(line) \/ IsBlank(line, i + 1) THEN i ELSE EndOf(line, i + 1)

RECURSIVE FieldsFrom(_, _)
FieldsFrom(line, i) ==
    IF i > Len(line) THEN <<>>
    ELSE IF IsBlank(line, i) THEN FieldsFrom(line, i + 1)
    ELSE <<SubSeq(line, i, EndOf(line, i))>> \o FieldsFrom(line, EndOf(line, i) + 1)

NonBlank(line) == FieldsFrom(line, 1)

Qualifies(line) == Len(NonBlank(line)) >= 4 /\ NonBlank(line)[2] \in COMPANIES

\* C4: when transform_pageviews succeeds, the records of its output are,
\* one for one and in order, the input lines with at least 4 fields whose
\* field at index 1 is in the five-entry watchlist; the k-th record has
\* page_title_id = k and carries that line's title and the integer its
\* view count stands for.
C4_OutputMatchesQualifyingLines ==
    (fn = "transform_pageviews" /\ pc = "returned") =>
        LET q == SelectSeq(extractedFile.lines, Qualifies)
            out == csvFile.rows
        IN  /\ Cardinality(COMPANIES) = 5
            /\ csvFile.exists
            /\ out[1] = Header
            /\ Len(out) = Len(q) + 1
            /\ \A k \in 1..Len(q) :
                /\ out[k + 1][1] = ToString(k)
                /\ out[k + 1][2] = NonBlank(q[k])[2]
                /\ out[k + 1][2] \in COMPANIES
                /\ out[k + 1][3] = ToString(ParseInt(NonBlank(q[k])[3]))

\* A successful transform that dropped a line and kept the next one,
\* whose count is written with a sign, a leading zero and an underscore.
C4_Witness ==
    /\ fn = "transform_pageviews" /\ pc = "returned"
    /\ Len(csvFile.rows) = 2
    /\ Len(extractedFile.lines) = 2
    /\ extractedFile.lines[1] = "en amazon 7 0"
    /\ extractedFile.lines[2] = "en Google +01_0 0"
    /\ csvFile.rows[2][1] = "1"
    /\ csvFile.rows[2][3] = "10"

NotIntegerCount(line) == Len(NonBlank(line)) >= 4 /\ ~IsIntText(NonBlank(line)[3])

\* C10 as stated: an input with a line of at least 4 fields whose view
\* count is not integer text makes transform_pageviews fail.
C10_AnyBadCountFails ==
    (fn = "transform_pageviews" /\ pc = "returned") =>
        \A i \in 1..Len(extractedFile.lines) : ~NotIntegerCount(extractedFile.lines[i])

\* C10, amended: a line of at least 4 fields whose title is in the
\* watchlist and whose view count is not integer text makes the transform
\* fail at that very line, with the ValueError and the output as it was
\* unless the closing of the output file fails in its turn; a line with
\* fewer than 4 fields, or with a title outside the watchlist (whatever
\* its view count), is skipped, leaving counter, output and control as
\* they are.
C10_BadCountFailsOnWatchlistLinesOnly ==
    [][(pc = "t_loop" /\ tIdx' = tIdx + 1) =>
            LET line == extractedFile.lines[tIdx + 1]
            IN  /\ ~Qualifies(line) =>
                    /\ pc' = "t_loop" /\ error' = NoError
                    /\ page_title_id' = page_title_id
                    /\ csvFile' = csvFile
                /\ (Qualifies(line) /\ NotIntegerCount(line)) =>
                    /\ pc' = "t_except"
                    /\ firstError' = "ValueError:int"
                    /\ page_title_id' = page_title_id
                    /\ faults' = faults =>
                        /\ error' = "ValueError:int"
                        /\ csvFile' = csvFile]_vars

\* The transform failed on a watchlist line after it had skipped a line
\* outside the watchlist whose view count is not integer text either.
C10_Witness ==
    /\ fn = "transform_pageviews" /\ pc = "raised" /\ raised = "ValueError:int"
    /\ tIdx = 2
    /\ NotIntegerCount(extractedFile.lines[1]) /\ ~Qualifies(extractedFile.lines[1])
    /\ page_title_id = 1

\* The rows of a CSV file transform_pageviews wrote, as the table's
\* columns type them.
RowsOf(file) ==
    {[page_title_id |-> ParseInt(file.rows[r][1]), page_title |-> file.rows[r][2],
      pageviews |-> ParseInt(file.rows[r][3]), year |-> ParseInt(file.rows[r][4]),
      month |-> ParseInt(file.rows[r][5]), day |-> ParseInt(file.rows[r][6]),
      hour |-> ParseInt(file.rows[r][7])] : r \in 2..Len(file.rows)}

FailedInsideTransaction ==
    firstError \in {"DatabaseError:create", "OSError:open_csv", "OSError:read_csv",
                    "KeyError", "DatabaseError:insert", "DataError", "NotNullViolation",
                    "UniqueViolation", "OperationalError:commit"}

\* C1 as stated: a load that fails at table creation, at the CSV, at an
\* insert or at the commit leaves the committed store as it was, with the
\* transaction rolled back and the failure recorded, and raises the
\* original error; a load commits at most once, after the last row.
C1_LoadAllOrNothing ==
    (fn = "load_to_postgres") =>
        /\ commits <= 1
        /\ (commits = 1 => csvPos = DataRows(csvFile))
        /\ (pc = "raised" /\ FailedInsideTransaction) =>
            /\ store = storeAtCall
            /\ txn.rows \subseteq store.rows
            /\ raised = firstError

\* C2 as stated: for every file transform_pageviews wrote, when it is
\* loaded into a store without rows and then loaded again, with the
\* database and the filesystem working, the second load raises no error,
\* inserts nothing and leaves the rows the first load left.
C2_SecondLoadIsNoOp ==
    (/\ fn = "load_to_postgres" /\ pc \in {"returned", "raised"}
     /\ reload
     /\ csvFile \in TransformedCsv
     /\ faults = 0) =>
        /\ raised = NoError
        /\ store.rows = storeAtCall.rows

\* The second of two loads of the file with the count 3000000000 has
\* raised, as the first did, with nothing else failing.
C2_Witness ==
    /\ fn = "load_to_postgres" /\ pc = "raised" /\ raised = "DataError"
    /\ reload
    /\ csvFile \in TransformedCsv
    /\ csvFile.rows[2][3] = "3000000000"
    /\ store.rows = {}
    /\ faults = 0

\* C3 as stated: when postgres_cursor hands control back, whatever
\* happened inside, no connection and no cursor is open.
C3_EverythingClosedOnExit ==
    (fn \in {"load_to_postgres", "get_most_viewed_page"} /\ pc \in {"returned", "raised"})
        => (~connOpen /\ ~cursorOpen)

\* C5: no step of any loader or analyzer invocation removes or changes a
\* committed row, and page_title_id stays a key of the committed rows.
C5_CommittedRowsStay ==
    [][/\ \A r \in store.rows : r \in store'.rows
       /\ \A x, y \in store'.rows : x.page_title_id = y.page_title_id => x = y]_vars

\* A load has committed although a row of its file collided with a
\* different row stored under the same key.
C5_Witness ==
    /\ fn = "load_to_postgres" /\ pc = "returned" /\ commits = 1
    /\ csvFile \in TransformedCsv
    /\ \E r \in RowsOf(csvFile) :
        /\ r \notin store.rows
        /\ \E x \in store.rows : x.page_title_id = r.page_title_id

\* What the database driver, the filesystem and the network raise.
EnvironmentErrors ==
    {"OperationalError:get_conn", "InterfaceError:cursor", "DatabaseError:query",
     "OperationalError:commit", "InterfaceError:rollback",
     "InterfaceError:cursor_close", "InterfaceError:close"}

\* C6 as stated: on a store without rows, and with the database working,
\* get_most_viewed_page returns the empty dict, raises nothing and leaves
\* the analysis log as it was.
C6_EmptyStoreEmptyResult ==
    (/\ fn = "get_most_viewed_page" /\ storeAtCall.rows = {}
     /\ pc \in {"returned", "raised"}
     /\ firstError \notin EnvironmentErrors) =>
        /\ pc = "returned" /\ raised = NoError
        /\ result = ReturnDict(<<>>)
        /\ analysisLog = analysisAtCall

\* C6, amended: on a store without rows get_most_viewed_page leaves the
\* analysis log as it was; when the table exists it returns the empty
\* dict and raises nothing, unless the database connection fails; when
\* the table was never created it never returns: the query raises
\* UndefinedTable, which reaches the caller unless the cleanup fails in
\* its turn.
C6_EmptyTableEmptyResult ==
    (fn = "get_most_viewed_page" /\ storeAtCall.rows = {}) =>
        /\ analysisLog = analysisAtCall
        /\ pc = "returned" =>
            /\ storeAtCall.table
            /\ result = ReturnDict(<<>>) /\ raised = NoError
        /\ (pc = "raised" /\ firstError \notin EnvironmentErrors) =>
            /\ ~storeAtCall.table
            /\ firstError = "UndefinedTable"
            /\ raised \in {"UndefinedTable"} \cup EnvironmentErrors
        /\ (pc = "raised" /\ storeAtCall.table) => raised \in EnvironmentErrors

\* The analyzer has returned from a query on the empty table.
C6_Witness ==
    /\ fn = "get_most_viewed_page" /\ pc = "returned"
    /\ storeAtCall.table /\ storeAtCall.rows = {}
    /\ result = ReturnDict(<<>>)

RECURSIVE Total(_)
Total(rows) ==
    IF rows = {} THEN 0
    ELSE LET r == CHOOSE x \in rows : TRUE IN r.pageviews + Total(rows \ {r})

SameGroup(r, res) ==
    /\ r.page_title = res.page_title /\ r.year = res.year /\ r.month = res.month
    /\ r.day = res.day /\ r.hour = res.hour

\* What get_most_viewed_page returned is a group of the stored rows with
\* the sum of its pageviews, and no group has a larger sum.
IsMaximalGroup(res, rows) ==
    /\ \E r \in rows : SameGroup(r, res)
    /\ res.total_pageviews = Total({r \in rows : SameGroup(r, res)})
    /\ \A o \in rows :
         Total({r \in rows : GroupKey(r) = GroupKey(o)}) <= res.total_pageviews

\* The lines of the analysis log file, the one without terminator included.
LogLines(log) == IF log.cut = "" THEN log.lines ELSE Append(log.lines, log.cut)

\* C7 as stated: on a store with rows, what get_most_viewed_page returns
\* is a group of the stored rows with the sum of its pageviews, no group
\* has a larger sum, and the analysis log is what it was plus one line.
C7_ResultIsAMaximalGroup ==
    (fn = "get_most_viewed_page" /\ pc = "returned" /\ storeAtCall.rows # {}) =>
        /\ result[1] = "dict" /\ Len(result[2]) = 1
        /\ IsMaximalGroup(result[2][1], storeAtCall.rows)
        /\ Len(LogLines(analysisLog)) = Len(LogLines(analysisAtCall)) + 1
        /\ SubSeq(LogLines(analysisLog), 1, Len(LogLines(analysisAtCall)))
                = LogLines(analysisAtCall)

\* C7, amended: the result is a maximal group as stated; the terminated
\* lines of the analysis log stay as they were and one terminated line
\* comes behind them, which begins with the text an earlier failed write
\* left without terminator and goes on with the report. When no such
\* text was there, the log is what it was plus one line.
C7_ResultIsAMaximalGroupAppended ==
    (fn = "get_most_viewed_page" /\ pc = "returned" /\ storeAtCall.rows # {}) =>
        /\ result[1] = "dict" /\ Len(result[2]) = 1
        /\ IsMaximalGroup(result[2][1], storeAtCall.rows)
        /\ analysisLog.cut = ""
        /\ Len(analysisLog.lines) = Len(analysisAtCall.lines) + 1
        /\ SubSeq(analysisLog.lines, 1, Len(analysisAtCall.lines)) = analysisAtCall.lines
        /\ LET last == analysisLog.lines[Len(analysisLog.lines)]
               left == analysisAtCall.cut
           IN  /\ Len(last) > Len(left)
               /\ SubSeq(last, 1, Len(left)) = left
        /\ analysisAtCall.cut = "" =>
            /\ Len(LogLines(analysisLog)) = Len(LogLines(analysisAtCall)) + 1
            /\ SubSeq(LogLines(analysisLog), 1, Len(LogLines(analysisAtCall)))
                    = LogLines(analysisAtCall)

\* The analyzer returned a group of several rows, with a smaller group
\* beside it, onto a log in which a failed write had left the beginning
\* of a report.
C7_Witness ==
    /\ fn = "get_most_viewed_page" /\ pc = "returned"
    /\ analysisAtCall.cut = "M"
    /\ Len(result[2]) = 1
    /\ result[2][1].total_pageviews = 10
    /\ Cardinality(Grouped(storeAtCall.rows)) >= 2
    /\ Len(analysisLog.lines) = 1

Attempts(t, ok) == Cardinality({i \in 1..Len(history) : history[i] = [task |-> t, ok |-> ok]})

\* C8: the attempts of a run follow the chain: the first is of the first
\* stage, after a success comes the next stage, after a failure the same
\* stage again; a stage running is the one the attempts have reached; no
\* stage is attempted more than 1 + 3 times; and once a stage has failed 4
\* times the run has failed, nothing runs, and no later stage was tried.
C8_StagesInOrderWithBoundedRetries ==
    /\ history # <<>> => history[1].task = 1
    /\ \A i \in 1..(Len(history) - 1) :
        history[i + 1].task = IF history[i].ok THEN history[i].task + 1 ELSE history[i].task
    /\ pc # "idle" =>
        /\ fn = Chain[task].callable
        /\ task = 1 + Cardinality({i \in 1..Len(history) : history[i].ok})
        /\ run = "running"
    /\ \A t \in 1..Len(Chain) :
        /\ Attempts(t, TRUE) <= 1
        /\ Attempts(t, FALSE) + Attempts(t, TRUE) <= 4
        /\ Attempts(t, FALSE) = 4 =>
            /\ run = "failed" /\ pc = "idle"
            /\ \A i \in 1..Len(history) : history[i].task <= t

\* The transform has used up its retries after two stages succeeded.
C8_Witness ==
    /\ run = "failed" /\ task = 3
    /\ Attempts(3, FALSE) = 4
    /\ Attempts(1, TRUE) = 1 /\ Attempts(2, TRUE) = 1

\* C9 as stated: a stage function that raises has recorded a failure in
\* the log during this call and raises the first error it met.
C9_FailuresLoggedThenReraised ==
    (pc = "raised") =>
        /\ \E i \in (logMark + 1)..Len(pipelineLog) : pipelineLog[i].level = "ERROR"
        /\ raised = firstError

====
